---- MODULE Spec2Model ----
(***************************************************************************)
(* Model of BACKEND/app.py: a Flask facade in front of a Supabase project. *)
(* Each worker thread serves one request at a time: routing, then the      *)
(* token_required decorator on protected routes, then the view function.   *)
(* The Supabase service (identity endpoint and tables) is the environment. *)
(*                                                                         *)
(* Encoding of Python values:                                              *)
(*   - a header string is the list of its pieces between single spaces     *)
(*     (what str.split(' ') returns); the absent header (None) is <<>>;    *)
(*   - a query parameter is a string, None is the string "None";           *)
(*   - request.json is [null |-> TRUE, obj |-> <<>>] for JSON null and     *)
(*     [null |-> FALSE, obj |-> d] for a JSON object d (a function from    *)
(*     member names to values);                                            *)
(*   - an error message is the sequence of the fragments of its f-string.  *)
(***************************************************************************)
EXTENDS Integers, Sequences, FiniteSets, TLC

\* ---------------------------------------------------------------- bounds
\* Number of rows the remote service accepts through inserts.
MaxRows == 1

\* ------------------------------------------------------------ vocabulary
Workers == {"w1", "w2"}

None == "None"

NoUser == "NoUser"

Range(s) == {s[i] : i \in 1..Len(s)}

\* Decimal rendering of the row ids the remote service hands out.
IdStr(n) == <<"1", "2", "3", "4", "5", "6", "7", "8">>[n]

\* ------------------------------------------------ remote identity service
\* Tokens the identity endpoint accepts, and the user each one resolves to.
ValidTokens == {"t1", "t2"}

UserOf(jwt) == IF jwt = "t1" THEN "u1" ELSE "u2"

\* supabase.auth.get_user(jwt): raises for a token the endpoint rejects or
\* when the call faults; returns None for an empty jwt (no session), on
\* which .user raises AttributeError.  raised = TRUE covers both.
get_user(jwt, fault) ==
    IF fault \/ jwt \notin ValidTokens
    THEN [raised |-> TRUE, user |-> NoUser]
    ELSE [raised |-> FALSE, user |-> UserOf(jwt)]

\* ------------------------------------------------------- remote tables
CategoriesTable == <<[id |-> "1", name |-> "c1"], [id |-> "2", name |-> "c2"]>>

InitialTutorials ==
    <<[id |-> "1", title |-> "x", description |-> "x",
       category_id |-> "c1", content |-> "x"]>>

\* select('*').eq(column, value) on a table held as a sequence of rows
SelectEq(table, column, value) ==
    SelectSeq(table, LAMBDA row : row[column] = value)

\* .single().execute(): raises unless exactly one row matches
ExecuteSingle(table, column, value, fault) ==
    LET rows == SelectEq(table, column, value)
    IN  IF fault \/ Len(rows) # 1
        THEN [raised |-> TRUE, data |-> <<>>]
        ELSE [raised |-> FALSE, data |-> rows]

\* .execute() of a list query
ExecuteList(rows, fault) ==
    IF fault THEN [raised |-> TRUE, data |-> <<>>]
             ELSE [raised |-> FALSE, data |-> rows]

\* The row the service stores for an insert into suggestions: the payload's
\* columns, a fresh id, votes defaulting to 0 and user_id NULL unless the
\* payload carries one.
SuggestionRow(payload, n) ==
    [id |-> IdStr(n), content |-> payload["content"], votes |-> "0",
     user_id |-> IF "user_id" \in DOMAIN payload THEN payload["user_id"] ELSE "NULL"]

TutorialRow(payload, n) ==
    [id |-> IdStr(n), title |-> payload["title"],
     description |-> payload["description"],
     category_id |-> payload["category_id"], content |-> payload["content"]]

\* ---------------------------------------------------------------- requests
JsonNull == [null |-> TRUE, obj |-> <<>>]

JsonObject(d) == [null |-> FALSE, obj |-> d]

FieldValue(f) == IF f = "category_id" THEN "c1" ELSE "x"

Dict(S) == [f \in S |-> FieldValue(f)]

Bodies ==
    {JsonNull} \cup
    {JsonObject(Dict(S)) : S \in {{}, {"content"}, {"message"},
                                  {"title", "description", "category_id"},
                                  {"title", "description", "category_id", "content"}}}

AuthHeaders ==
    {<<>>, <<"">>, <<"Bearer">>, <<"Basic", "t1">>, <<"Bearer", "">>,
     <<"Bearer", "bad">>, <<"Bearer", "t1">>, <<"Bearer", "t2">>,
     <<"Bearer", "", "t1">>}

Req(m, p, a, c, i, j) ==
    [method |-> m, path |-> p, auth |-> a, category_id |-> c, id |-> i, json |-> j]

NoReq == Req("", "", <<>>, None, None, JsonNull)

Requests ==
    {Req("GET", "/", <<>>, None, None, JsonNull),
     Req("GET", "/api/categories", <<>>, None, None, JsonNull),
     Req("GET", "/api/suggestions", <<>>, None, None, JsonNull)}
    \cup {Req("GET", "/api/tutorials", <<>>, c, None, JsonNull) : c \in {None, "", "c1"}}
    \cup {Req("GET", "/api/tutorial", <<>>, None, i, JsonNull) : i \in {None, "", "1", "2", "9"}}
    \cup {Req("POST", "/api/suggestions", a, None, None, j) : a \in AuthHeaders, j \in Bodies}
    \cup {Req("POST", "/api/tutorials", a, None, None, j) : a \in AuthHeaders, j \in Bodies}
    \cup {Req("POST", "/api/help_requests", a, None, None, j) :
             a \in {<<>>, <<"Bearer", "t1">>},
             j \in {JsonObject(Dict({})), JsonObject(Dict({"message"}))}}

\* --------------------------------------------------------------- responses
Response(status, kind, error, data) ==
    [status |-> status, kind |-> kind, error |-> error, data |-> data]

NoResp == Response(0, "", <<>>, <<>>)

\* jsonify(error=msg), status
jsonify_error(msg, status) == Response(status, "json", msg, <<>>)

\* jsonify(data) with an optional status (200 by default)
jsonify(data, status) == Response(status, "json", <<>>, data)

\* Flask's answer to an exception no view catches: 500 with an HTML page
\* (the debugger page under debug=True), never a JSON body.
InternalServerError == Response(500, "html", <<>>, <<>>)

\* Flask's answer to a URL no @app.route registered.
RouteNotFound == Response(404, "html", <<>>, <<>>)

\* An entry of a request's log: a check made locally, or a call sent to
\* the remote service with whether the service faulted on it.
Local(op) == <<op, "local">>

Sent(op, fault) == <<op, IF fault THEN "fault" ELSE "ok">>

\* What a view hands back: the response, the remote calls it sent (in
\* order, with its own checks) and the rows it had the service store.
Outcome(resp, calls, rows) == [resp |-> resp, calls |-> calls, rows |-> rows]

NoPayload == <<>>

\* The module-level handle: a Client, or None when the configuration was
\* missing or create_client raised.
Client == "Client"

\* `supabase.<attr>` on the handle: AttributeError when it is None.
AttributeError(client) == client = None

\* ------------------------------------------------------ token_required
\* `not auth_header`: the header is None or the empty string
HeaderFalsy(h) == h = <<>> \/ h = <<"">>

\* auth_header.startswith('Bearer ')
StartsWithBearer(h) == Len(h) >= 2 /\ h[1] = "Bearer"

\* auth_header.split(' ')[1]
ExtractJwt(h) == h[2]

MsgTokenMissing == <<"Token de autenticacao ausente ou mal formatado.">>

MsgTokenInvalid == <<"Token invalido ou expirado.">>

\* decorated_function without the except branch's return
decorated_function_lenient(auth_header, client, fault) ==
    IF HeaderFalsy(auth_header) \/ ~StartsWithBearer(auth_header)
    THEN [pass |-> FALSE, user |-> NoUser, calls |-> <<Local("header")>>,
          resp |-> jsonify_error(MsgTokenMissing, 401)]
    ELSE [pass |-> TRUE, calls |-> <<Local("header"), Sent("get_user", fault)>>,
          resp |-> NoResp,
          user |-> get_user(ExtractJwt(auth_header), fault).user]

\* decorated_function up to the call of f: pass = TRUE means f runs with
\* g.user = user; otherwise resp is returned and f never runs.
decorated_function(auth_header, client, fault) ==
    IF HeaderFalsy(auth_header) \/ ~StartsWithBearer(auth_header)
    THEN [pass |-> FALSE, user |-> NoUser, calls |-> <<Local("header")>>,
          resp |-> jsonify_error(MsgTokenMissing, 401)]
    ELSE LET jwt == ExtractJwt(auth_header)
             user_response ==
                 IF AttributeError(client)
                 THEN [raised |-> TRUE, user |-> NoUser]
                 ELSE get_user(jwt, fault)
             calls == IF AttributeError(client) THEN <<Local("header")>>
                                                ELSE <<Local("header"), Sent("get_user", fault)>>
         IN  IF user_response.raised
             THEN [pass |-> FALSE, user |-> NoUser, calls |-> calls,
                   resp |-> jsonify_error(MsgTokenInvalid, 401)]
             ELSE [pass |-> TRUE, user |-> user_response.user, calls |-> calls,
                   resp |-> NoResp]

\* -------------------------------------------------------------- the views
index == Outcome(Response(200, "text", <<>>, <<>>), <<>>, NoPayload)

get_categories(client, fault) ==
    IF AttributeError(client) THEN Outcome(InternalServerError, <<>>, NoPayload)
    ELSE LET response == ExecuteList(CategoriesTable, fault)
         IN  IF response.raised
             THEN Outcome(InternalServerError, <<Sent("select", fault)>>, NoPayload)
             ELSE Outcome(jsonify(response.data, 200), <<Sent("select", fault)>>, NoPayload)

MsgCategoryIdRequired == <<"'", "category_id", "' e um parametro obrigatorio">>

\* `not x` for a query parameter: None or the empty string
ParamFalsy(x) == x = None \/ x = ""

get_tutorials_by_category(category_id, client, fault, table) ==
    IF ParamFalsy(category_id)
    THEN Outcome(jsonify_error(MsgCategoryIdRequired, 400), <<Local("check")>>, NoPayload)
    ELSE IF AttributeError(client)
    THEN Outcome(InternalServerError, <<Local("check")>>, NoPayload)
    ELSE LET response == ExecuteList(SelectEq(table, "category_id", category_id), fault)
         IN  IF response.raised
             THEN Outcome(InternalServerError, <<Local("check"), Sent("select", fault)>>, NoPayload)
             ELSE Outcome(jsonify(response.data, 200), <<Local("check"), Sent("select", fault)>>, NoPayload)

MsgIdRequired == <<"'", "id", "' e um parametro obrigatorio">>

MsgTutorialNotFound(tutorial_id) ==
    <<"Tutorial com ID ", tutorial_id, " nao foi encontrado.">>

\* get_tutorial_details without .single() and the `not response.data` test
get_tutorial_details_unchecked(tutorial_id, client, fault, table) ==
    IF ParamFalsy(tutorial_id)
    THEN Outcome(jsonify_error(MsgIdRequired, 400), <<Local("check")>>, NoPayload)
    ELSE IF AttributeError(client) \/ fault
    THEN Outcome(jsonify_error(MsgTutorialNotFound(tutorial_id), 404),
                 IF AttributeError(client) THEN <<Local("check")>>
                 ELSE <<Local("check"), Sent("select", fault)>>, NoPayload)
    ELSE Outcome(jsonify(SelectEq(table, "id", tutorial_id), 200),
                 <<Local("check"), Sent("select", fault)>>, NoPayload)

\* get_tutorial_details without the try/except
get_tutorial_details_uncaught(tutorial_id, client, fault, table) ==
    IF ParamFalsy(tutorial_id)
    THEN Outcome(jsonify_error(MsgIdRequired, 400), <<Local("check")>>, NoPayload)
    ELSE IF AttributeError(client)
    THEN Outcome(InternalServerError, <<Local("check")>>, NoPayload)
    ELSE LET response == ExecuteSingle(table, "id", tutorial_id, fault)
         IN  IF response.raised
             THEN Outcome(InternalServerError,
                          <<Local("check"), Sent("select", fault)>>, NoPayload)
             ELSE Outcome(jsonify(response.data, 200),
                          <<Local("check"), Sent("select", fault)>>, NoPayload)

get_tutorial_details(tutorial_id, client, fault, table) ==
    IF ParamFalsy(tutorial_id)
    THEN Outcome(jsonify_error(MsgIdRequired, 400), <<Local("check")>>, NoPayload)
    ELSE LET response ==
                 IF AttributeError(client) THEN [raised |-> TRUE, data |-> <<>>]
                 ELSE ExecuteSingle(table, "id", tutorial_id, fault)
             calls == IF AttributeError(client) THEN <<Local("check")>>
                                                ELSE <<Local("check"), Sent("select", fault)>>
         IN  IF response.raised \/ response.data = <<>>
             THEN Outcome(jsonify_error(MsgTutorialNotFound(tutorial_id), 404),
                          calls, NoPayload)
             ELSE Outcome(jsonify(response.data, 200), calls, NoPayload)

get_suggestions(client, fault, table) ==
    IF AttributeError(client) THEN Outcome(InternalServerError, <<>>, NoPayload)
    ELSE LET response == ExecuteList(table, fault)
         IN  IF response.raised
             THEN Outcome(InternalServerError, <<Sent("select", fault)>>, NoPayload)
             ELSE Outcome(jsonify(response.data, 200), <<Sent("select", fault)>>, NoPayload)

MsgContentRequired == <<"O campo '", "content", "' e obrigatorio">>

\* `not data` for request.json: None or the empty object
JsonFalsy(data) == data.null \/ DOMAIN data.obj = {}

\* add_suggestion answering 201 without waiting for the insert's result
add_suggestion_eager(data, client, fault, n) ==
    IF JsonFalsy(data) \/ "content" \notin DOMAIN data.obj
    THEN Outcome(jsonify_error(MsgContentRequired, 400), <<Local("body")>>, NoPayload)
    ELSE LET payload == [f \in {"content"} |-> data.obj["content"]]
             row == SuggestionRow(payload, n)
         IN  Outcome(jsonify(<<row>>, 201), <<Local("body"), Sent("insert", fault)>>,
                     IF fault THEN NoPayload ELSE <<row>>)

\* n is the id the service gives the next row of the table
add_suggestion(data, client, fault, n) ==
    IF JsonFalsy(data) \/ "content" \notin DOMAIN data.obj
    THEN Outcome(jsonify_error(MsgContentRequired, 400), <<Local("body")>>, NoPayload)
    ELSE IF AttributeError(client)
    THEN Outcome(InternalServerError, <<Local("body")>>, NoPayload)
    ELSE LET payload == [f \in {"content"} |-> data.obj["content"]]
             row == SuggestionRow(payload, n)
         IN  IF fault
             THEN Outcome(InternalServerError, <<Local("body"), Sent("insert", fault)>>, NoPayload)
             ELSE Outcome(jsonify(<<row>>, 201), <<Local("body"), Sent("insert", fault)>>, <<row>>)

required_fields == <<"title", "description", "category_id", "content">>

MsgFieldsRequired ==
    <<"Campos '", "title", "', '", "description", "', '", "category_id",
      "', e '", "content", "' sao obrigatorios.">>

create_tutorial(data, client, fault, n) ==
    IF data.null
    THEN \* `field in None` raises TypeError, which nothing catches
         Outcome(InternalServerError, <<Local("body")>>, NoPayload)
    ELSE IF ~(\A i \in 1..Len(required_fields) : required_fields[i] \in DOMAIN data.obj)
    THEN Outcome(jsonify_error(MsgFieldsRequired, 400), <<Local("body")>>, NoPayload)
    ELSE IF AttributeError(client)
    THEN Outcome(InternalServerError, <<Local("body")>>, NoPayload)
    ELSE LET payload == [f \in Range(required_fields) |-> data.obj[f]]
             row == TutorialRow(payload, n)
         IN  IF fault
             THEN Outcome(InternalServerError, <<Local("body"), Sent("insert", fault)>>, NoPayload)
             ELSE Outcome(jsonify(<<row>>, 201), <<Local("body"), Sent("insert", fault)>>, <<row>>)

\* ------------------------------------------------------------------ state
VARIABLES
    supabase,     \* the module-level handle: Client or None
    tutorials,    \* remote table tutorials, rows in id order
    suggestions,  \* remote table suggestions, rows in id order
    req,          \* per worker: the request being served
    pc,           \* per worker: "idle", "routed", "view", "done"
    g,            \* per application context: g.user
    resp,         \* per worker: the response once the request is answered
    calls         \* per worker: checks made and remote calls sent, in order

vars == <<supabase, tutorials, suggestions, req, pc, g, resp, calls>>

\* g as one object of the process rather than of the request's context
CtxOfProcess(w) == "w1"

\* flask.g lives in the application context pushed for the request
CtxOf(w) == w

\* The routes registered with @app.route
url_map ==
    {<<"GET", "/">>, <<"GET", "/api/categories">>, <<"GET", "/api/tutorials">>,
     <<"GET", "/api/tutorial">>, <<"GET", "/api/suggestions">>,
     <<"POST", "/api/suggestions">>, <<"POST", "/api/tutorials">>}

\* The routes decorated with @token_required
Protected == {<<"POST", "/api/suggestions">>, <<"POST", "/api/tutorials">>}

Route(w) == <<req[w].method, req[w].path>>

\* Rows inserted so far; the service refuses further inserts at MaxRows.
Inserted == (Len(tutorials) - Len(InitialTutorials)) + Len(suggestions)

InsertFaults == IF Inserted < MaxRows THEN BOOLEAN ELSE {TRUE}

\* Module import: the handle is built, or stays None after the except.
Init ==
    /\ supabase \in {Client, None}
    /\ tutorials = InitialTutorials
    /\ suggestions = <<>>
    /\ req = [w \in Workers |-> NoReq]
    /\ pc = [w \in Workers |-> "idle"]
    /\ g = [w \in Workers |-> NoUser]
    /\ resp = [w \in Workers |-> NoResp]
    /\ calls = [w \in Workers |-> <<>>]

\* A request arrives and Flask pushes a fresh context for it.
Receive(w) ==
    /\ pc[w] = "idle"
    /\ \E rq \in Requests : req' = [req EXCEPT ![w] = rq]
    /\ pc' = [pc EXCEPT ![w] = "routed"]
    /\ g' = [g EXCEPT ![CtxOf(w)] = NoUser]
    /\ UNCHANGED <<supabase, tutorials, suggestions, resp, calls>>

\* No rule of the url map matches.
NoRoute(w) ==
    /\ pc[w] = "routed"
    /\ Route(w) \notin url_map
    /\ resp' = [resp EXCEPT ![w] = RouteNotFound]
    /\ pc' = [pc EXCEPT ![w] = "done"]
    /\ UNCHANGED <<supabase, tutorials, suggestions, req, g, calls>>

TokenRequired(w) ==
    /\ pc[w] = "routed"
    /\ Route(w) \in Protected
    /\ \E fault \in BOOLEAN :
         LET d == decorated_function(req[w].auth, supabase, fault)
         IN  /\ calls' = [calls EXCEPT ![w] = @ \o d.calls]
             /\ IF d.pass
                THEN /\ g' = [g EXCEPT ![CtxOf(w)] = d.user]
                     /\ pc' = [pc EXCEPT ![w] = "view"]
                     /\ resp' = resp
                ELSE /\ g' = g
                     /\ pc' = [pc EXCEPT ![w] = "done"]
                     /\ resp' = [resp EXCEPT ![w] = d.resp]
    /\ UNCHANGED <<supabase, tutorials, suggestions, req>>

\* A view returns: its response is kept and its calls are logged.
Return(w, o) ==
    /\ resp' = [resp EXCEPT ![w] = o.resp]
    /\ calls' = [calls EXCEPT ![w] = @ \o o.calls]
    /\ pc' = [pc EXCEPT ![w] = "done"]
    /\ UNCHANGED <<supabase, req, g>>

Index(w) ==
    /\ pc[w] = "routed"
    /\ Route(w) = <<"GET", "/">>
    /\ Return(w, index)
    /\ UNCHANGED <<tutorials, suggestions>>

GetCategories(w) ==
    /\ pc[w] = "routed"
    /\ Route(w) = <<"GET", "/api/categories">>
    /\ \E fault \in BOOLEAN : Return(w, get_categories(supabase, fault))
    /\ UNCHANGED <<tutorials, suggestions>>

GetTutorialsByCategory(w) ==
    /\ pc[w] = "routed"
    /\ Route(w) = <<"GET", "/api/tutorials">>
    /\ \E fault \in BOOLEAN :
         Return(w, get_tutorials_by_category(req[w].category_id, supabase, fault, tutorials))
    /\ UNCHANGED <<tutorials, suggestions>>

GetTutorialDetails(w) ==
    /\ pc[w] = "routed"
    /\ Route(w) = <<"GET", "/api/tutorial">>
    /\ \E fault \in BOOLEAN :
         Return(w, get_tutorial_details(req[w].id, supabase, fault, tutorials))
    /\ UNCHANGED <<tutorials, suggestions>>

GetSuggestions(w) ==
    /\ pc[w] = "routed"
    /\ Route(w) = <<"GET", "/api/suggestions">>
    /\ \E fault \in BOOLEAN : Return(w, get_suggestions(supabase, fault, suggestions))
    /\ UNCHANGED <<tutorials, suggestions>>

AddSuggestion(w) ==
    /\ pc[w] = "view"
    /\ Route(w) = <<"POST", "/api/suggestions">>
    /\ \E fault \in InsertFaults :
         LET o == add_suggestion(req[w].json, supabase, fault, Len(suggestions) + 1)
         IN  /\ Return(w, o)
             /\ suggestions' = suggestions \o o.rows
    /\ UNCHANGED tutorials

CreateTutorial(w) ==
    /\ pc[w] = "view"
    /\ Route(w) = <<"POST", "/api/tutorials">>
    /\ \E fault \in InsertFaults :
         LET o == create_tutorial(req[w].json, supabase, fault, Len(tutorials) + 1)
         IN  /\ Return(w, o)
             /\ tutorials' = tutorials \o o.rows
    /\ UNCHANGED suggestions

\* The response is sent and the request's context is popped.
Send(w) ==
    /\ pc[w] = "done"
    /\ pc' = [pc EXCEPT ![w] = "idle"]
    /\ req' = [req EXCEPT ![w] = NoReq]
    /\ resp' = [resp EXCEPT ![w] = NoResp]
    /\ calls' = [calls EXCEPT ![w] = <<>>]
    /\ g' = [g EXCEPT ![CtxOf(w)] = NoUser]
    /\ UNCHANGED <<supabase, tutorials, suggestions>>

Next ==
    \E w \in Workers :
       \/ Receive(w)
       \/ NoRoute(w)
       \/ TokenRequired(w)
       \/ Index(w)
       \/ GetCategories(w)
       \/ GetTutorialsByCategory(w)
       \/ GetTutorialDetails(w)
       \/ GetSuggestions(w)
       \/ AddSuggestion(w)
       \/ CreateTutorial(w)
       \/ Send(w)

Spec == Init /\ [][Next]_vars

TypeOK ==
    /\ supabase \in {Client, None}
    /\ \A w \in Workers :
         /\ pc[w] \in {"idle", "routed", "view", "done"}
         /\ req[w] \in Requests \cup {NoReq}
         /\ resp[w].status \in {0, 200, 201, 400, 401, 404, 500}

\* ============================================================ properties
Done(w) == pc[w] = "done"

Ops(w) == {calls[w][i][1] : i \in 1..Len(calls[w])}

\* The request carries "Bearer <token>" with a token the identity endpoint
\* accepts (stated on the header itself, not through the decorator's tests).
HasValidToken(rq) ==
    /\ Len(rq.auth) >= 2
    /\ rq.auth[1] = "Bearer"
    /\ rq.auth[2] \in ValidTokens

HasMember(rq, f) == ~rq.json.null /\ f \in DOMAIN rq.json.obj

\* C1: on a protected route, a request without a valid bearer token (header
\* absent, not starting with 'Bearer ', or token rejected) is never passed
\* to the view; it is answered 401 and sends no insert, whatever its body.
C1_Unauthorized ==
    \A w \in Workers :
        (Route(w) \in Protected /\ ~HasValidToken(req[w]) /\ pc[w] # "routed")
            => /\ Done(w)
               /\ resp[w].status = 401
               /\ Ops(w) \cap {"body", "insert"} = {}

C1_Witness ==
    \E w \in Workers :
        /\ Done(w)
        /\ Route(w) = <<"POST", "/api/suggestions">>
        /\ req[w].auth = <<"Bearer", "bad">>
        /\ HasMember(req[w], "content")
        /\ resp[w].status = 401
        /\ supabase = Client

\* C2 (as claimed): POST /api/suggestions with a valid token and 'content',
\* answered without a fault of the remote service, returns 201 and echoes a
\* row whose user_id is the user the token resolves to.
C2_EchoesIdentity ==
    \A w \in Workers :
        (/\ Done(w)
         /\ Route(w) = <<"POST", "/api/suggestions">>
         /\ HasValidToken(req[w])
         /\ HasMember(req[w], "content")
         /\ calls[w] = <<Local("header"), Sent("get_user", FALSE),
                         Local("body"), Sent("insert", FALSE)>>)
            => /\ resp[w].status = 201
               /\ Len(resp[w].data) = 1
               /\ resp[w].data[1].user_id = UserOf(req[w].auth[2])

\* The input the route requires is absent from the request.
MissingInput(rq) ==
    CASE <<rq.method, rq.path>> = <<"GET", "/api/tutorials">> ->
             IF rq.category_id \in {None, ""} THEN {"category_id"} ELSE {}
      [] <<rq.method, rq.path>> = <<"GET", "/api/tutorial">> ->
             IF rq.id \in {None, ""} THEN {"id"} ELSE {}
      [] <<rq.method, rq.path>> = <<"POST", "/api/suggestions">> ->
             {"content"} \ (IF rq.json.null THEN {} ELSE DOMAIN rq.json.obj)
      [] <<rq.method, rq.path>> = <<"POST", "/api/tutorials">> ->
             {"title", "description", "category_id", "content"}
                 \ (IF rq.json.null THEN {} ELSE DOMAIN rq.json.obj)
      [] OTHER -> {}

\* The view of the request has run (the decorator, if any, let it through).
ViewRan(w) ==
    /\ Done(w)
    /\ Route(w) \in url_map
    /\ Route(w) \in Protected => "body" \in Ops(w)

\* C3 (as claimed): a view reached without one of its required inputs
\* answers 400 with a message naming the input and sends no query or insert.
C3_MissingInput400 ==
    \A w \in Workers :
        (ViewRan(w) /\ MissingInput(req[w]) # {})
            => /\ resp[w].status = 400
               /\ resp[w].kind = "json"
               /\ MissingInput(req[w]) \subseteq Range(resp[w].error)
               /\ Ops(w) \cap {"select", "insert"} = {}

\* The step in which worker w's GET /api/tutorial?id=<non-empty> is answered
DetailsAnswered(w) ==
    /\ pc[w] = "routed"
    /\ Route(w) = <<"GET", "/api/tutorial">>
    /\ req[w].id \notin {None, ""}
    /\ pc'[w] = "done"

\* The rows of the remote table tutorials whose id is the requested one,
\* at the moment the lookup is made
Held(w) == SelectSeq(tutorials, LAMBDA row : row.id = req[w].id)

NotFoundNaming(r, id) ==
    r.status = 404 /\ r.kind = "json" /\ id \in Range(r.error)

NeedsStore == url_map \ {<<"GET", "/">>}

\* C5 (as claimed): with the handle None, every route that needs the
\* backing store answers 503.
C5_Unavailable503 ==
    \A w \in Workers :
        (supabase = None /\ Done(w) /\ Route(w) \in NeedsStore)
            => resp[w].status = 503

\* C6 (as claimed): with the client built, every error response of a
\* registered route is a JSON body {"error": message}, and a request during
\* which the remote query of the view faulted is answered 500 with the
\* fault's message in 'error'.
C6_JsonErrors ==
    \A w \in Workers :
        (supabase = Client /\ Done(w) /\ Route(w) \in url_map)
            => /\ resp[w].status >= 400
                    => resp[w].kind = "json" /\ resp[w].error # <<>>
               /\ (/\ Route(w) # <<"GET", "/api/tutorial">>
                   /\ \E op \in {"select", "insert"} :
                          Sent(op, TRUE) \in Range(calls[w]))
                    => resp[w].status = 500

\* C7 (as claimed): with the client built, POST /api/help_requests is
\* routed; with 'message' in the body it inserts a help request and answers
\* 201, without it 400.
C7_HelpRequests ==
    \A w \in Workers :
        (supabase = Client /\ Done(w) /\ Route(w) = <<"POST", "/api/help_requests">>)
            => /\ resp[w] # RouteNotFound
               /\ IF HasMember(req[w], "message")
                  THEN resp[w].status = 201 /\ "insert" \in Ops(w)
                  ELSE resp[w].status = 400

\* Position of a step in a write request
Rank(op) ==
    CASE op = "header" -> 1 [] op = "get_user" -> 2
      [] op = "body" -> 3 [] op = "insert" -> 4 [] OTHER -> 0

C8_Order(w) ==
    /\ \A i, j \in 1..Len(calls[w]) :
           i < j => Rank(calls[w][i][1]) < Rank(calls[w][j][1])
    /\ "body" \in Ops(w) => Sent("get_user", FALSE) \in Range(calls[w])
    /\ "insert" \in Ops(w) => "body" \in Ops(w)

C8_State ==
    \A w \in Workers :
        Route(w) \in Protected =>
            /\ C8_Order(w)
            /\ resp[w].status = 201 =>
                   calls[w][Len(calls[w])] = Sent("insert", FALSE)
            /\ resp[w].status \in {400, 401} => "insert" \notin Ops(w)

C8_Step ==
    \A w \in Workers :
        (Route(w) \in Protected /\ pc[w] # "done" /\ pc'[w] = "done") =>
            /\ resp'[w].status = 201 =>
                   /\ Len(resp'[w].data) = 1
                   /\ \/ suggestions' = suggestions \o resp'[w].data /\ tutorials' = tutorials
                      \/ tutorials' = tutorials \o resp'[w].data /\ suggestions' = suggestions
            /\ resp'[w].status \in {400, 401} =>
                   suggestions' = suggestions /\ tutorials' = tutorials

\* C8: on POST /api/suggestions and POST /api/tutorials the token check
\* comes before the body check, which comes before the insert; 201 is
\* answered only once the insert has returned without fault, the row then
\* being stored; a request answered 400 or 401 has sent no insert and has
\* left the remote tables as they were.
C8_AllOrNothing == []C8_State /\ [][C8_Step]_vars

C8_Witness ==
    \E w, v \in Workers :
        /\ Done(w) /\ Route(w) = <<"POST", "/api/tutorials">>
        /\ resp[w].status = 201 /\ Len(tutorials) = Len(InitialTutorials) + 1
        /\ Done(v) /\ Route(v) = <<"POST", "/api/suggestions">>
        /\ HasValidToken(req[v]) /\ resp[v].status = 400
        /\ suggestions = <<>>

\* C9: the identity is per request.  A request has no identity before its
\* own token is checked; the view of a request sees the user its own token
\* resolves to, whatever other requests are in progress or came before; a
\* protected request without a valid token is answered 401; and two
\* protected requests that are equal and got the same answers from the
\* remote service get the same status and error.
C9_PerRequestIdentity ==
    \A w \in Workers :
        /\ pc[w] \in {"idle", "routed"} => g[CtxOf(w)] = NoUser
        /\ pc[w] = "view" =>
               HasValidToken(req[w]) /\ g[CtxOf(w)] = UserOf(req[w].auth[2])
        /\ (Done(w) /\ Route(w) \in Protected /\ ~HasValidToken(req[w]))
               => resp[w].status = 401
        /\ \A v \in Workers :
               (/\ Done(w) /\ Done(v)
                /\ Route(w) \in Protected
                /\ req[w] = req[v]
                /\ calls[w] = calls[v])
                   => /\ resp[w].status = resp[v].status
                      /\ resp[w].error = resp[v].error

\* after an authenticated insert, one view runs as u2 while another
\* request, which has no header, has been refused
C9_Witness ==
    \E w, v \in Workers :
        /\ suggestions # <<>>
        /\ pc[w] = "view" /\ g[CtxOf(w)] = "u2"
        /\ Done(v) /\ Route(v) \in Protected /\ req[v].auth = <<>>
        /\ resp[v].status = 401

\* C10: GET /api/tutorial with a non-empty id is answered 200 or 404 only;
\* when the handle is None or the remote query faults, the answer is 404
\* with the id in the message.
C10_LookupNever5xx ==
    \A w \in Workers :
        (Done(w) /\ Route(w) = <<"GET", "/api/tutorial">> /\ req[w].id \notin {None, ""})
            => /\ resp[w].status \in {200, 404}
               /\ resp[w].status = 404 => NotFoundNaming(resp[w], req[w].id)
               /\ (supabase = None \/ Sent("select", TRUE) \in Range(calls[w]))
                      => resp[w].status = 404

C10_Witness ==
    \E w \in Workers :
        /\ Done(w) /\ Route(w) = <<"GET", "/api/tutorial">> /\ req[w].id = "1"
        /\ Sent("select", TRUE) \in Range(calls[w])
        /\ NotFoundNaming(resp[w], "1")

====
